---- MODULE Spec2Model ----
(***************************************************************************)
(* Push-to-talk dictation (dict.py): a hotkey listener thread, an audio    *)
(* callback thread, the shared globals `recording` and `audio_data`, the   *)
(* transcription call and the text rewriting applied to its result.        *)
(*                                                                         *)
(* Text is a sequence of one-character strings, so that the regular        *)
(* expressions of the source can be evaluated position by position.        *)
(***************************************************************************)
EXTENDS Integers, Sequences, FiniteSets, TLC

(***************************************************************************)
(* Characters                                                              *)
(***************************************************************************)
UpperCase == <<"A", "B", "C", "D", "E", "F", "G", "H", "I", "J", "K", "L", "M",
               "N", "O", "P", "Q", "R", "S", "T", "U", "V", "W", "X", "Y", "Z">>

LowerCase == <<"a", "b", "c", "d", "e", "f", "g", "h", "i", "j", "k", "l", "m",
               "n", "o", "p", "q", "r", "s", "t", "u", "v", "w", "x", "y", "z">>

Digits == {"0", "1", "2", "3", "4", "5", "6", "7", "8", "9"}

\* re.IGNORECASE compares characters by their case-folded form
Lower(c) ==
    IF \E k \in 1..26 : UpperCase[k] = c
    THEN LowerCase[CHOOSE k \in 1..26 : UpperCase[k] = c]
    ELSE c

\* \w of the re module
IsWord(c) ==
    \/ \E k \in 1..26 : UpperCase[k] = c \/ LowerCase[k] = c
    \/ c \in Digits
    \/ c = "_"

\* \s of the re module
IsSpace(c) == c \in {" ", "\n", "\t", "\r", "\f"}

\* the class [,.?] of the spoken-punctuation patterns
IsTrail(c) == c \in {",", ".", "?"}

\* the class [,.!?] of the cleanup patterns
IsPunct(c) == c \in {",", ".", "!", "?"}

WordAt(s, k) == k >= 1 /\ k <= Len(s) /\ IsWord(s[k])

\* \b between s[k-1] and s[k]
Boundary(s, k) == WordAt(s, k - 1) # WordAt(s, k)

SameChar(a, b, ci) == IF ci THEN Lower(a) = Lower(b) ELSE a = b

(***************************************************************************)
(* Words of the rewrite tables                                             *)
(***************************************************************************)
SP == <<" ">>
W_actual == <<"a", "c", "t", "u", "a", "l">>
W_new == <<"n", "e", "w">>
W_line == <<"l", "i", "n", "e">>
W_inverted == <<"i", "n", "v", "e", "r", "t", "e", "d">>
W_comma == <<"c", "o", "m", "m", "a">>
W_full == <<"f", "u", "l", "l">>
W_stop == <<"s", "t", "o", "p">>
U_NEW_LINE == <<"N", "E", "W", "_", "L", "I", "N", "E">>
U_INVERTED == <<"I", "N", "V", "E", "R", "T", "E", "D", "_">>
U_COMMA == <<"C", "O", "M", "M", "A">>
U_FULL_STOP == <<"F", "U", "L", "L", "_", "S", "T", "O", "P">>
U_PLACEHOLDER == <<"_", "P", "L", "A", "C", "E", "H", "O", "L", "D", "E", "R">>

NEW_LINE_PLACEHOLDER == U_NEW_LINE \o U_PLACEHOLDER
INVERTED_COMMA_PLACEHOLDER == U_INVERTED \o U_COMMA \o U_PLACEHOLDER
COMMA_PLACEHOLDER == U_COMMA \o U_PLACEHOLDER
FULL_STOP_PLACEHOLDER == U_FULL_STOP \o U_PLACEHOLDER

\* A spoken-phrase pattern  \b lit \b [,.?]? ( ?)  with its replacement.
\* lits are the literal texts the phrase can match, in the order the regex
\* engine tries them ('new ?line' takes the space first, then goes without);
\* sp says whether the pattern ends in the optional space.
WordPat(lits, sp, repl) == [kind |-> "word", lits |-> lits, sp |-> sp, repl |-> repl]

\* A literal (case-sensitive) search string with its replacement
LitPat(lit, repl) == [kind |-> "lit", lit |-> lit, repl |-> repl]

REPLACEMENTS_REAL == <<
    WordPat(<<W_actual \o SP \o W_new \o SP \o W_line, W_actual \o SP \o W_new \o W_line>>,
            TRUE, NEW_LINE_PLACEHOLDER),
    WordPat(<<W_actual \o SP \o W_inverted \o SP \o W_comma>>, TRUE, INVERTED_COMMA_PLACEHOLDER),
    WordPat(<<W_actual \o SP \o W_comma>>, TRUE, COMMA_PLACEHOLDER),
    WordPat(<<W_actual \o SP \o W_full \o SP \o W_stop>>, TRUE, FULL_STOP_PLACEHOLDER) >>

REPLACEMENTS == <<
    WordPat(<<W_new \o SP \o W_line, W_new \o W_line>>, TRUE, <<"\n">>),
    WordPat(<<W_inverted \o SP \o W_comma>>, FALSE, <<"\"">>),
    WordPat(<<W_comma>>, TRUE, <<",", " ">>),
    WordPat(<<W_full \o SP \o W_stop>>, TRUE, <<".", " ">>) >>

PLACEHOLDERS == <<
    LitPat(NEW_LINE_PLACEHOLDER, W_new \o SP \o W_line \o SP),
    LitPat(INVERTED_COMMA_PLACEHOLDER, W_inverted \o SP \o W_comma \o SP),
    LitPat(COMMA_PLACEHOLDER, W_comma \o SP),
    LitPat(FULL_STOP_PLACEHOLDER, W_full \o SP \o W_stop \o SP) >>

\* The cleanup expressions of stop_recording_and_process, in source order
CLEANUP == <<
    [kind |-> "dup"],           \* ([,.!?])(?:\s*\1)+  ->  \1
    [kind |-> "commadot"],      \* ,\s*\.              ->  .
    [kind |-> "wspunct"],       \* \s+([,.!?])         ->  \1
    [kind |-> "quotews"],       \* "\s+                ->  "
    [kind |-> "wsquote"],       \* \s+"                ->  "
    LitPat(<<"\"", ",">>, <<"\"">>),
    LitPat(<<",", "\"">>, <<" ", "\"">>) >>

(***************************************************************************)
(* re.sub and str.replace                                                  *)
(***************************************************************************)
\* the position after the longest run of \s that starts at i
SkipSpace(s, i) ==
    CHOOSE k \in i..(Len(s) + 1) :
        /\ \A j \in i..(k - 1) : IsSpace(s[j])
        /\ k = Len(s) + 1 \/ ~IsSpace(s[k])

\* lit occurs in s at position i
MatchLit(lit, s, i, ci) ==
    /\ i + Len(lit) - 1 <= Len(s)
    /\ \A k \in 1..Len(lit) : SameChar(s[i + k - 1], lit[k], ci)

\* (?:\s*\1)+ after the mark c at i - 1: the repeats lie in the longest run
\* of c and \s that starts at i, and the match ends after the last c of it
\* (the result is i when there is no repeat)
DupEnd(s, i, c) ==
    LET stop == CHOOSE k \in i..(Len(s) + 1) :
                    /\ \A j \in i..(k - 1) : IsSpace(s[j]) \/ s[j] = c
                    /\ k = Len(s) + 1 \/ ~(IsSpace(s[k]) \/ s[k] = c)
        marks == {j \in i..(stop - 1) : s[j] = c}
    IN  IF marks = {} THEN i
        ELSE (CHOOSE j \in marks : \A m \in marks : m <= j) + 1

\* \b lit \b [,.?]? ( ?) at position i, re.IGNORECASE
MatchWord(pat, s, i) ==
    LET alts == {a \in 1..Len(pat.lits) :
                    /\ Boundary(s, i)
                    /\ MatchLit(pat.lits[a], s, i, TRUE)
                    /\ Boundary(s, i + Len(pat.lits[a]))}
    IN  IF alts = {} THEN 0
        ELSE LET a == CHOOSE x \in alts : \A y \in alts : x <= y
                 e == i + Len(pat.lits[a])
                 p == IF e <= Len(s) /\ IsTrail(s[e]) THEN e + 1 ELSE e
             IN  IF pat.sp /\ p <= Len(s) /\ s[p] = " " THEN p + 1 ELSE p

\* The position after the match of pat that starts at i, or 0 (no match at i)
MatchEnd(pat, s, i) ==
    CASE pat.kind = "word" -> MatchWord(pat, s, i)
      [] pat.kind = "lit" ->
            IF MatchLit(pat.lit, s, i, FALSE) THEN i + Len(pat.lit) ELSE 0
      [] pat.kind = "dup" ->
            IF IsPunct(s[i])
            THEN LET e == DupEnd(s, i + 1, s[i]) IN IF e > i + 1 THEN e ELSE 0
            ELSE 0
      [] pat.kind = "commadot" ->
            IF s[i] = ","
            THEN LET k == SkipSpace(s, i + 1)
                 IN  IF k <= Len(s) /\ s[k] = "." THEN k + 1 ELSE 0
            ELSE 0
      [] pat.kind = "wspunct" ->
            IF IsSpace(s[i])
            THEN LET k == SkipSpace(s, i)
                 IN  IF k <= Len(s) /\ IsPunct(s[k]) THEN k + 1 ELSE 0
            ELSE 0
      [] pat.kind = "quotews" ->
            IF s[i] = "\"" /\ i + 1 <= Len(s) /\ IsSpace(s[i + 1])
            THEN SkipSpace(s, i + 1)
            ELSE 0
      [] pat.kind = "wsquote" ->
            IF IsSpace(s[i])
            THEN LET k == SkipSpace(s, i)
                 IN  IF k <= Len(s) /\ s[k] = "\"" THEN k + 1 ELSE 0
            ELSE 0

\* What the match s[i..e-1] of pat is replaced by
Replacement(pat, s, i, e) ==
    CASE pat.kind \in {"word", "lit"} -> pat.repl
      [] pat.kind = "dup" -> <<s[i]>>
      [] pat.kind = "commadot" -> <<".">>
      [] pat.kind = "wspunct" -> <<s[e - 1]>>
      [] pat.kind \in {"quotews", "wsquote"} -> <<"\"">>

\* One step of the scan at position i: a match is replaced and the scan goes
\* on after it, any other character is copied and the scan goes on at i + 1
ScanStep(pat, s, i) ==
    LET e == MatchEnd(pat, s, i)
    IN  IF e = 0 THEN [pos |-> i + 1, out |-> <<s[i]>>]
        ELSE [pos |-> e, out |-> Replacement(pat, s, i, e)]

RECURSIVE Scan(_, _, _, _)
\* The leftmost non-overlapping matches of pat from position a on, up to the
\* first scan position >= b: that position and the text written so far.
\* The range is halved so that the evaluation stays shallow.
Scan(pat, s, a, b) ==
    IF a >= b THEN [pos |-> a, out |-> <<>>]
    ELSE IF b = a + 1 THEN ScanStep(pat, s, a)
    ELSE LET l == Scan(pat, s, a, a + ((b - a) \div 2))
             r == Scan(pat, s, l.pos, b)
         IN  [pos |-> r.pos, out |-> l.out \o r.out]

\* re.sub(pattern, replacement, s) / s.replace(placeholder, text)
Sub(pat, s) == Scan(pat, s, 1, Len(s) + 1).out

RECURSIVE SubAll(_, _, _)
\* for pattern, replacement in table: temp = re.sub(pattern, replacement, temp)
SubAll(table, k, s) ==
    IF k > Len(table) THEN s ELSE SubAll(table, k + 1, Sub(table[k], s))

\* clean_transcript without its first loop (lines 88-89)
clean_transcript_unprotected(transcript) ==
    SubAll(PLACEHOLDERS, 1, SubAll(REPLACEMENTS, 1, transcript))

clean_transcript(transcript) ==
    SubAll(PLACEHOLDERS, 1, SubAll(REPLACEMENTS, 1, SubAll(REPLACEMENTS_REAL, 1, transcript)))

\* the seven re.sub calls that follow clean_transcript
Cleanup(s) == SubAll(CLEANUP, 1, s)

\* str.strip()
Strip(s) ==
    LET keep == {k \in 1..Len(s) : ~IsSpace(s[k])}
    IN  IF keep = {} THEN <<>>
        ELSE SubSeq(s, CHOOSE k \in keep : \A j \in keep : k <= j,
                       CHOOSE k \in keep : \A j \in keep : j <= k)

\* transcript -> the text handed to keyboard_controller.type, less the " "
Cleaned(transcript) == Cleanup(clean_transcript(transcript))

(***************************************************************************)
(* Bounds and inputs                                                       *)
(***************************************************************************)
MaxSessions == 2        \* hotkey presses that start a session
MaxChunks == 2          \* invocations of the audio callback

HOTKEY == "ctrl_r"
KEY == HOTKEY
Keys == {KEY, "shift"}

W_hello == <<"h", "e", "l", "l", "o">>
W_world == <<"w", "o", "r", "l", "d">>
T_Hello == W_hello \o SP \o W_comma \o SP \o W_comma \o SP \o W_world \o SP
             \o W_full \o SP \o W_stop \o SP \o W_full \o SP \o W_stop
T_Quote == <<"s", "h", "e", " ", "s", "a", "i", "d", " ">> \o W_inverted \o SP \o W_comma
             \o <<" ", "h", "i", " ", "t", "h", "e", "r", "e", " ">> \o W_inverted \o SP \o W_comma
T_Blank == <<" ", "\n">>
T_Hi == <<" ", "h", "i", "!", " ">>

\* the texts the backend answers with (response.text)
RawTexts == {T_Hello, T_Quote, T_Blank, T_Hi}

Int16Max == 32767       \* np.iinfo(np.int16).max

\* indata.copy() of the n-th callback: a block of one float sample, n / MaxChunks
Block(n) == <<n>>

RECURSIVE Concatenate(_)
\* np.concatenate(audio_data, axis=0)
Concatenate(list) ==
    IF list = <<>> THEN <<>> ELSE Head(list) \o Concatenate(Tail(list))

\* (audio_np * np.iinfo(np.int16).max).astype(np.int16): scaled, truncated
ToInt16(audio_np) ==
    [k \in 1..Len(audio_np) |-> (audio_np[k] * Int16Max) \div MaxChunks]

(***************************************************************************)
(* State                                                                   *)
(***************************************************************************)
VARIABLES
    recording,      \* the global flag
    audio_data,     \* the global name: a reference into heap
    heap,           \* the list objects ever bound to audio_data
    lpc,            \* where the hotkey listener thread stands
    audio_int16,    \* the local of stop_recording_and_process
    cpc,            \* where the audio callback thread stands
    indata,         \* the block the callback holds
    cref,           \* the list object the callback has loaded
    nchunks,        \* callback invocations so far
    began,          \* for each invocation, the session it began in (0: none)
    session,        \* sessions started so far
    released,       \* sessions whose release was taken
    requests,       \* the calls of apply_whisper: session and audio sent
    replies,        \* the texts apply_whisper returned: session and text
    typed,          \* the calls of keyboard_controller.type: session and text
    console,        \* what the listener thread and main printed, in order
    statuses,       \* 1 once the audio thread has printed an "Audio status" line
    event,          \* the key event the listener handled last
    main            \* "running", or how main() ended

vars == <<recording, audio_data, heap, lpc, audio_int16, cpc, indata, cref, nchunks, began,
          session, released, requests, replies, typed, console, statuses, event, main>>

hist == <<session, released, requests, replies, typed>>
audio == <<cpc, indata, cref, nchunks, began, statuses>>

\* print(...); the line is kept with the session it was printed in
Echo(msg) == console' = Append(console, [session |-> session, msg |-> msg])

Init ==
    /\ recording = FALSE
    /\ audio_data = 1
    /\ heap = << <<>> >>
    /\ lpc = "idle"
    /\ audio_int16 = <<>>
    /\ cpc = "idle"
    /\ indata = <<>>
    /\ cref = 1
    /\ nchunks = 0
    /\ began = <<>>
    /\ session = 0
    /\ released = 0
    /\ requests = <<>>
    /\ replies = <<>>
    /\ typed = <<>>
    /\ console = <<>>
    /\ statuses = 0
    /\ event = [type |-> "none", key |-> KEY, taken |-> FALSE]
    /\ main = "running"

(***************************************************************************)
(* The hotkey listener thread: on_press, on_release and what they call     *)
(***************************************************************************)
\* start_recording, line 82; the press itself is recorded here
start_recording ==
    /\ session < MaxSessions
    /\ recording' = TRUE
    /\ session' = session + 1
    /\ lpc' = "l83"
    /\ UNCHANGED <<audio_data, heap, console, released, requests, replies, typed>>

\* start_recording, lines 83-84: a new list object is bound to audio_data
start_recording_83 ==
    /\ main = "running"
    /\ lpc = "l83"
    /\ heap' = Append(heap, <<>>)
    /\ audio_data' = Len(heap) + 1
    /\ Echo("Listening...")
    /\ lpc' = "idle"
    /\ UNCHANGED <<recording, audio_int16, event, main>>
    /\ UNCHANGED hist
    /\ UNCHANGED audio

\* on_press run on a thread of its own for every event, also while the
\* listener is inside the transcription call
on_press_async(key) ==
    /\ main = "running"
    /\ lpc \in {"idle", "l108"}
    /\ event' = [type |-> "press", key |-> key, taken |-> (key = KEY /\ ~recording)]
    /\ IF key = KEY /\ ~recording
       THEN start_recording
       ELSE UNCHANGED <<recording, audio_data, heap, lpc, console, hist>>
    /\ UNCHANGED <<audio_int16, main>>
    /\ UNCHANGED audio

\* on_press without 'and not recording'
on_press_unguarded(key) ==
    /\ main = "running"
    /\ lpc = "idle"
    /\ event' = [type |-> "press", key |-> key, taken |-> (key = KEY /\ ~recording)]
    /\ IF key = KEY
       THEN start_recording
       ELSE UNCHANGED <<recording, audio_data, heap, lpc, console, hist>>
    /\ UNCHANGED <<audio_int16, main>>
    /\ UNCHANGED audio

on_press(key) ==
    /\ main = "running"
    /\ lpc = "idle"
    /\ event' = [type |-> "press", key |-> key, taken |-> (key = KEY /\ ~recording)]
    /\ IF key = KEY /\ ~recording
       THEN start_recording
       ELSE UNCHANGED <<recording, audio_data, heap, lpc, console, hist>>
    /\ UNCHANGED <<audio_int16, main>>
    /\ UNCHANGED audio

\* stop_recording_and_process, lines 98-99
stop_recording_and_process ==
    /\ recording' = FALSE
    /\ released' = released + 1
    /\ Echo("Transcribing...")
    /\ lpc' = "l100"
    /\ UNCHANGED <<session, requests, replies, typed>>

\* on_release without 'and recording'
on_release_unguarded(key) ==
    /\ main = "running"
    /\ lpc = "idle"
    /\ event' = [type |-> "release", key |-> key, taken |-> (key = KEY /\ recording)]
    /\ IF key = KEY
       THEN stop_recording_and_process
       ELSE UNCHANGED <<recording, lpc, console, hist>>
    /\ UNCHANGED <<audio_data, heap, audio_int16, main>>
    /\ UNCHANGED audio

on_release(key) ==
    /\ main = "running"
    /\ lpc = "idle"
    /\ event' = [type |-> "release", key |-> key, taken |-> (key = KEY /\ recording)]
    /\ IF key = KEY /\ recording
       THEN stop_recording_and_process
       ELSE UNCHANGED <<recording, lpc, console, hist>>
    /\ UNCHANGED <<audio_data, heap, audio_int16, main>>
    /\ UNCHANGED audio

\* lines 100-102 without the return
stop_100_noreturn ==
    /\ main = "running"
    /\ lpc = "l100"
    /\ IF heap[audio_data] = <<>>
       THEN Echo("No audio recorded")
       ELSE UNCHANGED console
    /\ lpc' = "l103"
    /\ UNCHANGED <<recording, audio_data, heap, audio_int16, event, main>>
    /\ UNCHANGED hist
    /\ UNCHANGED audio

\* lines 100-102: if not audio_data
stop_100 ==
    /\ main = "running"
    /\ lpc = "l100"
    /\ IF heap[audio_data] = <<>>
       THEN /\ Echo("No audio recorded")
            /\ lpc' = "idle"
       ELSE /\ lpc' = "l103"
            /\ UNCHANGED console
    /\ UNCHANGED <<recording, audio_data, heap, audio_int16, event, main>>
    /\ UNCHANGED hist
    /\ UNCHANGED audio

\* An exception leaves on_release: the listener stops, listener.join() in
\* main raises it, main prints it (line 152) and returns
ListenerFails ==
    /\ lpc' = "stopped"
    /\ main' = "failed"
    /\ Echo("Error")

\* lines 103-104: the list is read and converted, or np.concatenate raises
stop_103 ==
    /\ main = "running"
    /\ lpc = "l103"
    /\ \/ /\ audio_int16' = ToInt16(Concatenate(heap[audio_data]))
          /\ lpc' = "l105"
          /\ UNCHANGED <<console, main>>
       \/ /\ ListenerFails
          /\ UNCHANGED audio_int16
    /\ UNCHANGED <<recording, audio_data, heap, event>>
    /\ UNCHANGED hist
    /\ UNCHANGED audio

\* lines 105-108: the temporary file is made and written and apply_whisper
\* is called, or NamedTemporaryFile / wavfile.write raises
stop_105 ==
    /\ main = "running"
    /\ lpc = "l105"
    /\ \/ /\ requests' = Append(requests, [session |-> session, audio |-> audio_int16])
          /\ lpc' = "l108"
          /\ UNCHANGED <<console, main>>
       \/ /\ ListenerFails
          /\ UNCHANGED requests
    /\ UNCHANGED <<recording, audio_data, heap, audio_int16, event, session, released,
                   replies, typed>>
    /\ UNCHANGED audio

\* lines 108-120 without the test of line 109
whisper_returns_unchecked(text, typeOk) ==
    /\ main = "running"
    /\ lpc = "l108"
    /\ replies' = Append(replies, [session |-> session, text |-> text])
    /\ typed' = Append(typed, [session |-> session,
                                text |-> Cleaned(Strip(text)) \o <<" ">>])
    /\ IF typeOk THEN UNCHANGED console ELSE Echo("Error")
    /\ lpc' = "idle"
    /\ UNCHANGED <<recording, audio_data, heap, audio_int16, event, main,
                   session, released, requests>>
    /\ UNCHANGED audio

\* line 120 without the appended " "
whisper_returns_nospace(text, typeOk) ==
    /\ main = "running"
    /\ lpc = "l108"
    /\ replies' = Append(replies, [session |-> session, text |-> text])
    /\ LET transcript == Strip(text)
       IN  IF transcript # <<>>
           THEN /\ typed' = Append(typed, [session |-> session, text |-> Cleaned(transcript)])
                /\ IF typeOk THEN UNCHANGED console ELSE Echo("Error")
           ELSE UNCHANGED <<typed, console>>
    /\ lpc' = "idle"
    /\ UNCHANGED <<recording, audio_data, heap, audio_int16, event, main,
                   session, released, requests>>
    /\ UNCHANGED audio

\* lines 108-120: apply_whisper returns text; keyboard_controller.type is
\* called with the cleaned text when it is not empty, and may itself raise
\* (caught at line 123)
whisper_returns(text, typeOk) ==
    /\ main = "running"
    /\ lpc = "l108"
    /\ replies' = Append(replies, [session |-> session, text |-> text])
    /\ LET transcript == Strip(text)
       IN  IF transcript # <<>>
           THEN /\ typed' = Append(typed, [session |-> session,
                                            text |-> Cleaned(transcript) \o <<" ">>])
                /\ IF typeOk THEN UNCHANGED console ELSE Echo("Error")
           ELSE UNCHANGED <<typed, console>>
    /\ lpc' = "idle"
    /\ UNCHANGED <<recording, audio_data, heap, audio_int16, event, main,
                   session, released, requests>>
    /\ UNCHANGED audio

\* a handler that calls the backend again
whisper_raises_OpenAIError_retry ==
    /\ main = "running"
    /\ lpc = "l108"
    /\ Echo("OpenAI error")
    /\ lpc' = "l105"
    /\ UNCHANGED <<recording, audio_data, heap, audio_int16, event, main>>
    /\ UNCHANGED hist
    /\ UNCHANGED audio

\* lines 121-122: the call raises OpenAIError
whisper_raises_OpenAIError ==
    /\ main = "running"
    /\ lpc = "l108"
    /\ Echo("OpenAI error")
    /\ lpc' = "idle"
    /\ UNCHANGED <<recording, audio_data, heap, audio_int16, event, main>>
    /\ UNCHANGED hist
    /\ UNCHANGED audio

\* no 'except Exception' around the call: the exception leaves on_release
whisper_raises_Exception_uncaught ==
    /\ main = "running"
    /\ lpc = "l108"
    /\ ListenerFails
    /\ UNCHANGED <<recording, audio_data, heap, audio_int16, event>>
    /\ UNCHANGED hist
    /\ UNCHANGED audio

\* lines 123-124: apply_whisper raises anything else (open() of the file,
\* a response without text)
whisper_raises_Exception ==
    /\ main = "running"
    /\ lpc = "l108"
    /\ Echo("Error")
    /\ lpc' = "idle"
    /\ UNCHANGED <<recording, audio_data, heap, audio_int16, event, main>>
    /\ UNCHANGED hist
    /\ UNCHANGED audio

(***************************************************************************)
(* The audio thread: callback                                              *)
(***************************************************************************)
\* lines 137-139: the status is printed and the flag is read
callback(status) ==
    /\ main = "running"
    /\ cpc = "idle"
    /\ nchunks < MaxChunks
    /\ nchunks' = nchunks + 1
    /\ indata' = Block(nchunks + 1)
    /\ began' = Append(began, IF recording THEN session ELSE 0)
    /\ statuses' = IF status THEN 1 ELSE statuses
    /\ cpc' = IF recording THEN "l140" ELSE "idle"
    /\ UNCHANGED <<recording, audio_data, heap, lpc, audio_int16, cref, console, event, main>>
    /\ UNCHANGED hist

\* line 140 behind a lock that stop_recording_and_process holds
callback_load_locked ==
    /\ main = "running"
    /\ cpc = "l140"
    /\ lpc \notin {"l100", "l103", "l105", "l108"}
    /\ cref' = audio_data
    /\ cpc' = "append"
    /\ UNCHANGED <<recording, audio_data, heap, lpc, audio_int16, indata, nchunks, began,
                   statuses, console, event, main>>
    /\ UNCHANGED hist

\* line 140: the global audio_data is loaded
callback_load ==
    /\ main = "running"
    /\ cpc = "l140"
    /\ cref' = audio_data
    /\ cpc' = "append"
    /\ UNCHANGED <<recording, audio_data, heap, lpc, audio_int16, indata, nchunks, began,
                   statuses, console, event, main>>
    /\ UNCHANGED hist

\* line 140 with insert(0, ...) in the place of append
callback_append_front ==
    /\ main = "running"
    /\ cpc = "append"
    /\ heap' = [heap EXCEPT ![cref] = <<indata>> \o @]
    /\ cpc' = "idle"
    /\ UNCHANGED <<recording, audio_data, lpc, audio_int16, indata, cref, nchunks, began,
                   statuses, console, event, main>>
    /\ UNCHANGED hist

\* line 140: indata.copy() is appended to the loaded list
callback_append ==
    /\ main = "running"
    /\ cpc = "append"
    /\ heap' = [heap EXCEPT ![cref] = Append(@, indata)]
    /\ cpc' = "idle"
    /\ UNCHANGED <<recording, audio_data, lpc, audio_int16, indata, cref, nchunks, began,
                   statuses, console, event, main>>
    /\ UNCHANGED hist

(***************************************************************************)
(* main                                                                    *)
(***************************************************************************)
\* lines 149-150: Ctrl+C while main waits in listener.join()
KeyboardInterrupt ==
    /\ main = "running"
    /\ main' = "interrupted"
    /\ Echo("Exiting on user interrupt.")
    /\ UNCHANGED <<recording, audio_data, heap, lpc, audio_int16, event>>
    /\ UNCHANGED hist
    /\ UNCHANGED audio

Next ==
    \/ \E key \in Keys : on_press(key)
    \/ \E key \in Keys : on_release(key)
    \/ start_recording_83
    \/ stop_100
    \/ stop_103
    \/ stop_105
    \/ \E text \in RawTexts, typeOk \in BOOLEAN : whisper_returns(text, typeOk)
    \/ whisper_raises_OpenAIError
    \/ whisper_raises_Exception
    \/ \E status \in BOOLEAN : callback(status)
    \/ callback_load
    \/ callback_append
    \/ KeyboardInterrupt

Spec == Init /\ [][Next]_vars

(***************************************************************************)
(* The same program with no concurrent event: a callback invocation runs   *)
(* from its flag test to its append while the listener is at rest or waits *)
(* for the backend, and the listener moves only between invocations        *)
(***************************************************************************)
AudioAtRest == cpc = "idle"
ListenerAtRest == lpc \in {"idle", "l108"}

SeqNext ==
    \/ AudioAtRest /\ \E key \in Keys : on_press(key)
    \/ AudioAtRest /\ \E key \in Keys : on_release(key)
    \/ AudioAtRest /\ start_recording_83
    \/ AudioAtRest /\ stop_100
    \/ AudioAtRest /\ stop_103
    \/ AudioAtRest /\ stop_105
    \/ AudioAtRest /\ \E text \in RawTexts, typeOk \in BOOLEAN : whisper_returns(text, typeOk)
    \/ AudioAtRest /\ whisper_raises_OpenAIError
    \/ AudioAtRest /\ whisper_raises_Exception
    \/ ListenerAtRest /\ \E status \in BOOLEAN : callback(status)
    \/ ListenerAtRest /\ callback_load
    \/ ListenerAtRest /\ callback_append
    \/ KeyboardInterrupt

SeqSpec == Init /\ [][SeqNext]_vars

(***************************************************************************)
(* Lines 108-120 on bounded transcripts: the listener stands in the call   *)
(* of apply_whisper for its first session, and the backend answers with    *)
(* any text of Transcripts                                                 *)
(***************************************************************************)
MaxLen == 3             \* length of the texts built from Alphabet

\* a letter, whitespace, the marks , . ! ? and the quote character
Alphabet == {"a", " ", ",", ".", "!", "?", "\""}
Strings == UNION {[1..n -> Alphabet] : n \in 0..MaxLen}

Upper(c) ==
    IF \E k \in 1..26 : LowerCase[k] = c
    THEN UpperCase[CHOOSE k \in 1..26 : LowerCase[k] = c]
    ELSE c

\* w with the letters at the positions of up in upper case
Cased(w, up) == [k \in 1..Len(w) |-> IF k \in up THEN Upper(w[k]) ELSE w[k]]

\* w as spoken, in capitals, capitalised, and with every second letter raised
Casings(w) ==
    {Cased(w, {}), Cased(w, 1..Len(w)), Cased(w, {1}),
     Cased(w, {k \in 1..Len(w) : k % 2 = 0})}

\* the phrases of REPLACEMENTS_REAL with the words PLACEHOLDERS restores
Protected == <<
    [said |-> W_actual \o SP \o W_new \o SP \o W_line, words |-> W_new \o SP \o W_line,
     token |-> NEW_LINE_PLACEHOLDER],
    [said |-> W_actual \o SP \o W_inverted \o SP \o W_comma,
     words |-> W_inverted \o SP \o W_comma, token |-> INVERTED_COMMA_PLACEHOLDER],
    [said |-> W_actual \o SP \o W_comma, words |-> W_comma, token |-> COMMA_PLACEHOLDER],
    [said |-> W_actual \o SP \o W_full \o SP \o W_stop, words |-> W_full \o SP \o W_stop,
     token |-> FULL_STOP_PLACEHOLDER] >>

\* response.text of the one call
Transcripts ==
    Strings \cup UNION {Casings(Protected[p].said) : p \in DOMAIN Protected}
            \cup Casings(W_comma)

\* the state in which apply_whisper was called for session 1, which
\* recorded one block
TextInit ==
    /\ recording = FALSE
    /\ audio_data = 2
    /\ heap = << <<>>, <<Block(1)>> >>
    /\ lpc = "l108"
    /\ audio_int16 = ToInt16(Block(1))
    /\ cpc = "idle"
    /\ indata = Block(1)
    /\ cref = 2
    /\ nchunks = 1
    /\ began = <<1>>
    /\ session = 1
    /\ released = 1
    /\ requests = <<[session |-> 1, audio |-> ToInt16(Block(1))]>>
    /\ replies = <<>>
    /\ typed = <<>>
    /\ console = <<[session |-> 1, msg |-> "Listening..."],
                   [session |-> 1, msg |-> "Transcribing..."]>>
    /\ statuses = 0
    /\ event = [type |-> "release", key |-> KEY, taken |-> TRUE]
    /\ main = "running"

TextNext == \E text \in Transcripts, typeOk \in BOOLEAN : whisper_returns(text, typeOk)

TextSpec == TextInit /\ [][TextNext]_vars

(***************************************************************************)
(* What a session did, read off the logs                                   *)
(***************************************************************************)
Sessions == 1..session
Said(s, msg) == \E i \in DOMAIN console : console[i] = [session |-> s, msg |-> msg]
Calls(s) == {i \in DOMAIN requests : requests[i].session = s}
Replies(s) == {i \in DOMAIN replies : replies[i].session = s}
Typed(s) == {i \in DOMAIN typed : typed[i].session = s}
LastLine == console[Len(console)]
InFlight == lpc = "l108"

\* the release of session s found audio_data not empty (line 100)
HadAudio(s) == s <= released /\ ~Said(s, "No audio recorded") /\ ~(s = session /\ lpc = "l100")

\* the processing of session s is over
Finished(s) == s < session \/ (s = released /\ lpc \in {"idle", "stopped"})

\* the call of apply_whisper for session s raised
TranscriptionFailed(s) ==
    /\ Calls(s) # {}
    /\ Replies(s) = {}
    /\ Said(s, "OpenAI error") \/ Said(s, "Error")

\* the text typed for each answer of the backend, computed once
Normalized == [t \in RawTexts |-> Cleaned(Strip(t))]

Hello_Expected == W_hello \o <<",", " ">> \o W_world \o <<".">>
Quote_Expected == <<"s", "h", "e", " ", "s", "a", "i", "d", " ", "\"">>
                    \o <<"h", "i", " ", "t", "h", "e", "r", "e", "\"">>

(***************************************************************************)
(* Claims                                                                  *)
(***************************************************************************)

\* C1: after every hotkey event the controller state is Idle or Recording and
\* follows the table (press -> Recording, release -> Idle, the other two
\* combinations and other keys change nothing), so that the sessions started
\* and not yet released number one when Recording and none when Idle.
C1_TransitionTable ==
    [][/\ recording' \in BOOLEAN
       /\ on_press(KEY) => recording'
       /\ on_release(KEY) => ~recording'
       /\ \A key \in Keys \ {KEY} : on_press(key) \/ on_release(key) => recording' = recording
       /\ recording' # recording => on_press(KEY) \/ on_release(KEY)
       /\ session' - released' = IF recording' THEN 1 ELSE 0]_vars

\* a second press while the second session is Recording
C1_Witness ==
    /\ event = [type |-> "press", key |-> KEY, taken |-> FALSE]
    /\ recording
    /\ session = 2
    /\ released = 1

C3_FailureSurvived ==
    \A s \in Sessions : Said(s, "Error") => main # "failed" /\ lpc # "stopped"

\* C4 (as claimed): every session whose release found audio causes exactly
\* one transcription call.
C4_ExactlyOneCall ==
    \A s \in Sessions : Finished(s) /\ HadAudio(s) => Cardinality(Calls(s)) = 1

\* C4 (amended): a session causes at most one transcription call, exactly one
\* when its release found audio and neither the concatenation nor the WAV
\* file raised; a session whose call failed has typed nothing.
C4_NoRetryNoOutput ==
    \A s \in Sessions :
        /\ Cardinality(Calls(s)) <= 1
        /\ Finished(s) /\ HadAudio(s) /\ ~(s = session /\ main = "failed")
              => Cardinality(Calls(s)) = 1
        /\ TranscriptionFailed(s) => Typed(s) = {}

\* the call of the first session failed and the second session was started
C4_Witness == TranscriptionFailed(1) /\ Said(1, "OpenAI error") /\ session = 2

\* C5 (as claimed): in the session after one whose call failed, every answer
\* of the backend is typed, normalized.
C5_NextSessionEmits ==
    \A r \in DOMAIN replies :
        LET s == replies[r].session
        IN  s > 1 /\ TranscriptionFailed(s - 1) =>
                \E i \in Typed(s) : typed[i].text = Normalized[replies[r].text] \o <<" ">>

\* C5 (amended): the failing step changes nothing but the console and leaves
\* the listener idle and running; the next press binds an empty list; and an
\* answer in the session after the failed one is typed, normalized, when it
\* is not empty after strip (and nothing is typed when it is).
C5_FreshAfterFailure ==
    [][/\ whisper_raises_OpenAIError \/ whisper_raises_Exception =>
            /\ lpc' = "idle"
            /\ main' = "running"
            /\ ~recording'
            /\ UNCHANGED <<recording, audio_data, heap, audio_int16, hist, audio>>
       /\ start_recording_83 => heap'[audio_data'] = <<>> /\ audio_data' # audio_data
       /\ \A text \in RawTexts, typeOk \in BOOLEAN :
            (session > 1 /\ TranscriptionFailed(session - 1) /\ whisper_returns(text, typeOk)) =>
                typed' = IF Strip(text) # <<>>
                         THEN Append(typed, [session |-> session,
                                             text |-> Normalized[text] \o <<" ">>])
                         ELSE typed]_vars

\* the first call failed and the second session typed its text
C5_Witness == TranscriptionFailed(1) /\ Typed(2) # {} /\ lpc = "idle"

\* C6: a release that finds no chunk prints 'No audio recorded', makes no
\* call, types nothing and reports no error; the listener is idle and the
\* next press starts a session.  Processing goes on only with chunks.
C6_EmptyRelease ==
    /\ lpc \in {"l103", "l105", "l108"} => heap[audio_data] # <<>>
    /\ \A s \in Sessions :
        Said(s, "No audio recorded") =>
            /\ Calls(s) = {}
            /\ Typed(s) = {}
            /\ ~Said(s, "Error")
            /\ ~Said(s, "OpenAI error")
            /\ s = session =>
                /\ lpc = "idle"
                /\ ~recording
                /\ main # "failed"
                /\ main = "running" /\ session < MaxSessions =>
                      ENABLED (on_press(KEY) /\ recording' /\ session' = session + 1)

\* an empty first session, and the press after it taken
C6_Witness == Said(1, "No audio recorded") /\ session = 2 /\ recording

\* C7: a press while Recording, a release while Idle and any event of
\* another key change nothing: not the flag, not the list, and no step of
\* the processing is started.
C7_NoOps ==
    [][\A key \in Keys :
          \/ on_press(key) /\ (key # KEY \/ recording)
          \/ on_release(key) /\ (key # KEY \/ ~recording)
          => UNCHANGED <<recording, audio_data, heap, lpc, audio_int16, hist, audio,
                         console, main>>]_vars

\* a repeated press while Recording with a chunk in the list
C7_Witness ==
    /\ event = [type |-> "press", key |-> KEY, taken |-> FALSE]
    /\ recording
    /\ heap[audio_data] # <<>>

\* C8: a session types at most once, only after its call returned a text
\* that is not empty after strip, and what is typed is that text normalized
\* followed by one space.
C8_OneEmission ==
    \A i \in DOMAIN typed :
        LET s == typed[i].session
        IN  /\ \A j \in Typed(s) : j = i
            /\ Calls(s) # {}
            /\ \E r \in Replies(s) :
                /\ Strip(replies[r].text) # <<>>
                /\ typed[i].text = Normalized[replies[r].text] \o <<" ">>

\* both sessions typed
C8_Witness == Typed(1) # {} /\ Typed(2) # {}

\* C9: the answer "hello comma comma world full stop full stop" is typed as
\* "hello, world." and the one appended space.
C9_HelloWorld ==
    \A i \in DOMAIN typed :
        (\E r \in Replies(typed[i].session) : replies[r].text = T_Hello)
            => typed[i].text = Hello_Expected \o <<" ">>

\* C10: the answer "she said inverted comma hi there inverted comma" is typed
\* as: she said "hi there" and the one appended space.
C10_Quotes ==
    \A i \in DOMAIN typed :
        (\E r \in Replies(typed[i].session) : replies[r].text = T_Quote)
            => typed[i].text = Quote_Expected \o <<" ">>

\* the text handed to keyboard_controller.type by the i-th call, less the
\* " " of line 120: the result of lines 110-119
Keyed(i) == SubSeq(typed[i].text, 1, Len(typed[i].text) - 1)

\* lit occurs somewhere in s
Occurs(lit, s) == \E k \in 1..Len(s) : MatchLit(lit, s, k, FALSE)

\* the characters the literal-substitute table writes
Inserted == {",", ".", "\"", "\n"}

\* C11: the punctuation cleanup is idempotent: for every text over letters,
\* whitespace, the marks , . ! ? and the quote character, the cleanup applied
\* to an already cleaned text gives that text again. (Every text of Strings
\* without a spoken phrase passes clean_transcript unchanged, so the typed
\* text is the cleanup of the backend's text.)
C11_CleanupIdempotent ==
    \A i \in DOMAIN typed : Cleanup(Keyed(i)) = Keyed(i)

\* C12: a protected phrase, in any letter case, is typed as its words and
\* one space, with no comma, period, quote or line break; the first loop
\* turns it into its placeholder token, no pattern of REPLACEMENTS matches
\* in that token, and no token is left in what is typed; the bare word
\* 'comma' is typed as ', '.
C12_ProtectedPhrases ==
    \A i \in DOMAIN replies :
        LET text == replies[i].text
            temp == SubAll(REPLACEMENTS_REAL, 1, Strip(text))
            s == replies[i].session
        IN  /\ \A p \in DOMAIN Protected :
                  text \in Casings(Protected[p].said) =>
                      /\ Typed(s) # {}
                      /\ \A j \in Typed(s) :
                            /\ Keyed(j) = Protected[p].words \o SP
                            /\ \A k \in DOMAIN Keyed(j) : Keyed(j)[k] \notin Inserted
                      /\ temp = Protected[p].token
                      /\ SubAll(REPLACEMENTS, 1, temp) = temp
            /\ text \in Casings(W_comma) =>
                  /\ Typed(s) # {}
                  /\ \A j \in Typed(s) : Keyed(j) = <<",", " ">>
            /\ \A j \in Typed(s), p \in DOMAIN Protected :
                  ~Occurs(Protected[p].token, typed[j].text)

\* each protected phrase was answered in capitals and typed
C12_Witness ==
    /\ lpc = "idle"
    /\ Typed(1) # {}
    /\ \E p \in DOMAIN Protected :
          replies = <<[session |-> 1, text |-> Cased(Protected[p].said, 1..Len(Protected[p].said))]>>

\* the sample of the n-th block as it stands in a PCM buffer
Sample(n) == ToInt16(Block(n))[1]

\* the blocks found in the PCM buffer sent for session s
Finalized(s) ==
    {n \in 1..nchunks : \E i \in Calls(s) :
                            \E k \in DOMAIN requests[i].audio : requests[i].audio[k] = Sample(n)}

\* the blocks whose callback invocation found `recording` set during session s
Accepted(s) == {n \in 1..nchunks : began[n] = s}

\* C13: once the release has read the list of a session nothing is appended
\* to that list any more, so the PCM buffer sent for the session is the whole
\* list and holds every block the callback accepted during the session.
C13_AcceptedChunksFinalized ==
    \A s \in Sessions :
        \A i \in Calls(s) :
            /\ requests[i].audio = ToInt16(Concatenate(heap[s + 1]))
            /\ Accepted(s) \subseteq Finalized(s)

\* C14: the PCM buffer sent for a session holds only blocks whose callback
\* invocation began between the press and the release of that session.
C14_OnlyOwnChunks ==
    \A s \in Sessions : Finalized(s) \subseteq Accepted(s)

\* the audio thread can take its next step
CallbackCanStep ==
    CASE cpc = "idle" -> nchunks < MaxChunks => ENABLED (\E status \in BOOLEAN : callback(status))
      [] cpc = "l140" -> ENABLED callback_load
      [] cpc = "append" -> ENABLED callback_append

\* C15: while the call of apply_whisper is in flight, however long, the
\* audio thread is never held: the next step of the callback can always be
\* taken, and an invocation is over after at most three steps of its own
\* (flag test, load of audio_data, append), none of which goes back.
C15_CallbackNeverWaits ==
    /\ [](InFlight /\ main = "running" => CallbackCanStep)
    /\ [][InFlight /\ cpc' # cpc =>
            <<cpc, cpc'>> \in {<<"idle", "l140">>, <<"l140", "append">>, <<"append", "idle">>}]_vars

\* the call is in flight and an invocation that found `recording` set
\* before the release is about to append
C15_Witness == InFlight /\ main = "running" /\ cpc = "append" /\ began[nchunks] = 1

\* the elements of a set of numbers in ascending order
Ascending(S) ==
    CHOOSE f \in [1..Cardinality(S) -> S] :
        \A a, b \in 1..Cardinality(S) : a < b => f[a] < f[b]

\* the blocks accepted during session s, concatenated in the order of their
\* arrival and converted
ArrivalOrder(s) ==
    ToInt16([k \in 1..Cardinality(Accepted(s)) |-> Block(Ascending(Accepted(s))[k])[1]])

\* C16: with no concurrent event, the PCM buffer sent for a session is
\* c1 ++ ... ++ cn (converted to int16) for the blocks c1..cn the callback
\* appended during that session, in their arrival order: none is dropped,
\* repeated or moved.
C16_ArrivalOrder ==
    \A s \in Sessions : \A i \in Calls(s) : requests[i].audio = ArrivalOrder(s)

\* a session whose buffer was sent with every block of the run in it
C16_Witness ==
    /\ Calls(1) # {}
    /\ Cardinality(Accepted(1)) = MaxChunks

\* the release of session s has run to its end: it found no audio, or the
\* backend answered, or the call failed
Completed(s) == Said(s, "No audio recorded") \/ Replies(s) # {} \/ TranscriptionFailed(s)

\* the calls of apply_whisper that have neither returned nor raised
Outstanding == {i \in DOMAIN requests : ~Completed(requests[i].session)}

\* C17: texts are typed in the order in which their sessions were released,
\* at most one call of apply_whisper is outstanding at any time, and a key
\* event is handled only when the listener is at rest, with the processing
\* of every released session complete.
C17_ReleaseOrder ==
    /\ [](/\ \A i, j \in DOMAIN typed : i < j => typed[i].session < typed[j].session
          /\ Cardinality(Outstanding) <= 1
          /\ Outstanding # {} => InFlight)
    /\ [][event' # event \/ session' # session \/ released' # released =>
            /\ lpc = "idle"
            /\ \A s \in 1..released : Completed(s)]_vars

\* two sessions were released, transcribed and typed, one after the other
C17_Witness ==
    /\ lpc = "idle"
    /\ released = 2
    /\ Len(typed) = 2
    /\ typed[1].session = 1
    /\ typed[2].session = 2

\* the backend answered session s with a text that str.strip() empties
BlankReply(s) == \E i \in Replies(s) : Strip(replies[i].text) = <<>>

\* C18: when the backend returns a text that is empty after strip(),
\* nothing is typed for the session (not even the " "), no error line is
\* printed for it, the controller is idle (recording is False and the
\* listener is at rest), and the next press of the hotkey starts a session.
C18_BlankReply ==
    \A s \in Sessions :
        BlankReply(s) =>
            /\ Typed(s) = {}
            /\ ~Said(s, "Error") /\ ~Said(s, "OpenAI error")
            /\ s = session =>
                  /\ ~recording
                  /\ lpc = "idle"
                  /\ main = "running" /\ session < MaxSessions =>
                        ENABLED (on_press(KEY) /\ recording' /\ session' = session + 1)

\* a blank answer for the first session, and the second session recording
C18_Witness == BlankReply(1) /\ session = 2 /\ recording /\ lpc = "idle"
====
